---- MODULE Spec2Model ----
\* Model of src/App.js: the capture / classify / translate cycle of the
\* App component (React state, the animation-frame polling loops started by
\* handleCameraStream, the translation call and the user's controls).
EXTENDS Integers, Sequences, FiniteSets, TLC

\* ---------------------------------------------------------------- bounds

\* Polling loops alive at the same time (each onReady may start one).
MaxLoops == 2

\* ------------------------------------------------------------- constants

\* availableLanguages (values; two of the three codes)
Languages == {"he", "ar"}
\* useState('he')
DefaultLanguage == "he"
\* class names the classifier can return
Labels == {"mug", "joystick"}
\* prediction[0].probability, in hundredths
Probabilities == {0, 30, 31, 100}
\* the threshold of `probability > 0.3`, in hundredths
Threshold == 30
\* the one fallback message of getTranslation
Fallback == <<"Cannot get transaction at this time. Please try again later">>
\* the empty text ''
NoText == <<>>

LoopIds == 1..MaxLoops

\* ----------------------------------------------------------------- state

VARIABLES
    word,                  \* useState('')      : recognizedLabel
    translation,           \* useState('')      : translatedText
    language,              \* useState('he')    : targetLanguageCode
    translationAvailable,  \* useState(true)
    predictionFound,       \* useState(false)
    hasPermission,         \* useState(null)    : "null" | "true" | "false"
    mobilenetModel,        \* useState(null)    : TRUE when a model is stored
    frameworkReady,        \* useState(false)
    startupPc,             \* position of the startup effect's async function
    camera,                \* the TensorCamera mounted by the last render
    loops,                 \* the polling loops: position and captured closure
    translateCalls,        \* "Attempting to hit Google API Endpoint" lines since the
                           \* last reset: 0, 1, or 2 for "more than one"
    predictionLog,         \* the most conclusive "prediction: ..." line logged so far
    unmounted,             \* the App component has been torn down
    resetPc                \* how many of loadNewTranslation's four updates are done
                           \* (0 outside the handler)

session == <<word, translation, language, translationAvailable, predictionFound,
             hasPermission, mobilenetModel, frameworkReady>>

vars == <<word, translation, language, translationAvailable, predictionFound,
          hasPermission, mobilenetModel, frameworkReady, startupPc, camera,
          loops, translateCalls, predictionLog, unmounted, resetPc>>

\* The phase of the cycle as the component renders it: the result view is
\* shown when translationAvailable, otherwise the camera view, whose loop is
\* gated by predictionFound.
Phase ==
    IF translationAvailable THEN "ShowingResult"
    ELSE IF predictionFound THEN "Resolving"
    ELSE "Capturing"

\* ------------------------------------------------------- classifier data

\* What mobilenetModel.classify(tensor, 1) resolves to: nothing, or one
\* prediction {className, probability}.
Predictions ==
    {<<>>} \cup {<<[className |-> c, probability |-> p]>> : c \in Labels, p \in Probabilities}

\* if(!prediction || prediction.length === 0) { return; }
Inconclusive(prediction) == Len(prediction) = 0

\* Variant: the comparison written as >= 0.3.
ConfidentFromThreshold(prediction) == prediction[1].probability >= Threshold

\* if(prediction[0].probability > 0.3)
Confident(prediction) == prediction[1].probability > Threshold

\* Line 179: what the logged prediction line shows: 1 an empty result, 2 a
\* top probability of at most 0.3, 3 a higher one (0: nothing logged yet).
Kind(prediction) ==
    IF Len(prediction) = 0 THEN 1
    ELSE IF prediction[1].probability <= 30 THEN 2
    ELSE 3

Max(a, b) == IF a > b THEN a ELSE b

\* ---------------------------------------------------- translation service

\* The translated texts the service can return for a query and a target.
Texts(q, target) == {<<q, target, n>> : n \in 1..2}

\* What `await fetch(...)` gives: a thrown transport error, no response
\* object, or a response.
FetchOutcomes == {"throw", "null", "response"}

\* What `await apiCall.json()` gives for query q and target t: a rejection
\* (no JSON), a body without data (an HTTP error body), data without
\* translations, or data.translations (possibly empty).
JsonBodies(q, t) ==
    {[kind |-> "reject", translations |-> <<>>],
     [kind |-> "noData", translations |-> <<>>],
     [kind |-> "noTranslations", translations |-> <<>>]}
    \cup {[kind |-> "data", translations |-> s] :
            s \in {<<>>} \cup {<<a>> : a \in Texts(q, t)}
                  \cup {p \in Texts(q, t) \X Texts(q, t) : p[1] # p[2]}}

\* Lines 124: the response is not usable.
Unusable(body) ==
    \/ body.kind # "data"
    \/ Len(body.translations) = 0

\* Variant: the failure paths store the empty text instead of the fallback.
StoredTextsBlankOnFailure(body, className, oldWord) ==
    IF Unusable(body)
    THEN [translation |-> NoText, word |-> oldWord]
    ELSE [translation |-> body.translations[1], word |-> className]

\* Variant: the last translation entry is used instead of the first.
StoredTextsLastEntry(body, className, oldWord) ==
    IF Unusable(body)
    THEN [translation |-> Fallback, word |-> oldWord]
    ELSE [translation |-> body.translations[Len(body.translations)], word |-> className]

\* Lines 123-137: the texts getTranslation stores for a JSON body. An
\* unusable body first stores the fallback (127), then the access to
\* response.data.translations[0].translatedText throws and the catch block
\* stores the fallback again (136); word is stored on success only (133).
StoredTexts(body, className, oldWord) ==
    IF Unusable(body)
    THEN [translation |-> Fallback, word |-> oldWord]
    ELSE [translation |-> body.translations[1], word |-> className]

\* ---------------------------------------------------------------- render

NoCamera ==
    [mounted |-> FALSE, pending |-> FALSE, predictionFound |-> FALSE,
     mobilenetModel |-> FALSE, language |-> DefaultLanguage]

\* Lines 52, 270-286, 298: TensorCamera is a new component class on every
\* render, so every render that shows the camera view mounts a new camera,
\* whose onReady will call the handleCameraStream of that render.
Mount(tA, pF, model, lang) ==
    IF tA THEN NoCamera
    ELSE [mounted |-> TRUE, pending |-> TRUE, predictionFound |-> pF,
          mobilenetModel |-> model, language |-> lang]

\* A state update that changes the state re-renders the component.
Render ==
    camera' = IF session' = session THEN camera
              ELSE Mount(translationAvailable', predictionFound',
                         mobilenetModel', language')

\* ----------------------------------------------------------------- loops

NoLoop == [pc |-> "none", mobilenetModel |-> FALSE, language |-> DefaultLanguage,
           className |-> ""]

FreeLoops == {l \in LoopIds : loops[l].pc = "none"}

\* cancelAnimationFrame(requestAnimationFrameId) for the variable of loop
\* l's render: drops that render's scheduled callback, if one is pending.
CancelAnimationFrame(ls, l) ==
    IF ls[l].pc = "raf" THEN [ls EXCEPT ![l] = NoLoop] ELSE ls

\* Variant: an iteration without a tensor does not schedule the next one.
IterateEndsWithoutTensor(loop, tensor) ==
    IF ~tensor THEN [pc |-> "none", mobilenetModel |-> FALSE,
                     language |-> DefaultLanguage, className |-> ""]
    ELSE IF ~loop.mobilenetModel
    THEN [pc |-> "none", mobilenetModel |-> FALSE,
          language |-> DefaultLanguage, className |-> ""]
    ELSE [loop EXCEPT !.pc = "classify"]

\* Lines 204-206 up to the first real suspension: the loop takes the next
\* tensor and calls getPrediction. No tensor: getPrediction returns and the
\* next iteration is scheduled. A tensor with mobilenetModel null throws, and
\* the loop ends with it. Otherwise the classifier is called.
Iterate(loop, tensor) ==
    IF ~tensor THEN [loop EXCEPT !.pc = "raf"]
    ELSE IF ~loop.mobilenetModel THEN NoLoop
    ELSE [loop EXCEPT !.pc = "classify"]

\* The camera delivers tensors only with the permission granted.
Tensors == IF hasPermission = "true" THEN {FALSE, TRUE} ELSE {FALSE}

Min(a, b) == IF a < b THEN a ELSE b

\* ------------------------------------------------------------------ Init

Init ==
    /\ word = ""
    /\ translation = NoText
    /\ language = DefaultLanguage
    /\ translationAvailable = TRUE
    /\ predictionFound = FALSE
    /\ hasPermission = "null"
    /\ mobilenetModel = FALSE
    /\ frameworkReady = FALSE
    /\ startupPc = "mount"
    /\ camera = NoCamera
    /\ loops = [l \in LoopIds |-> NoLoop]
    /\ translateCalls = 0
    /\ predictionLog = 0
    /\ unmounted = FALSE
    /\ resetPc = 0

\* --------------------------------------------------------------- startup

\* Lines 67-72: the mount effect runs once, sees frameworkReady false and
\* asks for the camera permission.
StartupEffect ==
    /\ startupPc = "mount"
    /\ startupPc' = IF ~frameworkReady THEN "permission" ELSE "done"
    /\ UNCHANGED <<unmounted, resetPc, word, translation, language, translationAvailable, predictionFound,
                   hasPermission, mobilenetModel, frameworkReady, camera, loops,
                   translateCalls, predictionLog>>

\* Lines 72-77: setHasPermission(status === 'granted'), then wait for tf.
PermissionAnswered(status) ==
    /\ startupPc = "permission"
    /\ hasPermission' = IF status = "granted" THEN "true" ELSE "false"
    /\ startupPc' = "tfready"
    /\ UNCHANGED <<unmounted, resetPc, word, translation, language, translationAvailable, predictionFound,
                   mobilenetModel, frameworkReady, loops, translateCalls,
                   predictionLog>>
    /\ Render

\* Lines 77-80, 153-154: tf.ready() resolves, mobilenet.load() is called.
TfReady ==
    /\ startupPc = "tfready"
    /\ startupPc' = "loadmodel"
    /\ UNCHANGED <<unmounted, resetPc, word, translation, language, translationAvailable, predictionFound,
                   hasPermission, mobilenetModel, frameworkReady, camera, loops,
                   translateCalls, predictionLog>>

\* Lines 80-82: setMobilenetModel(model); setFrameworkReady(true).
ModelLoaded ==
    /\ startupPc = "loadmodel"
    /\ mobilenetModel' = TRUE
    /\ frameworkReady' = TRUE
    /\ startupPc' = "done"
    /\ UNCHANGED <<unmounted, resetPc, word, translation, language, translationAvailable, predictionFound,
                   hasPermission, loops, translateCalls, predictionLog>>
    /\ Render

\* ---------------------------------------------------------- user controls

\* Variant: the reset without setWord('').
LoadNewTranslationKeepsWord ==
    /\ startupPc # "mount"
    /\ translationAvailable
    /\ translation' = NoText
    /\ predictionFound' = FALSE
    /\ translationAvailable' = FALSE
    /\ translateCalls' = 0
    /\ UNCHANGED <<unmounted, resetPc, word, language, hasPermission, mobilenetModel, frameworkReady,
                   startupPc, loops, predictionLog>>
    /\ Render

\* Lines 215-220, 254: "Check new word", shown in the translation view only.
LoadNewTranslation ==
    /\ startupPc # "mount"
    /\ translationAvailable
    /\ translation' = NoText
    /\ word' = ""
    /\ predictionFound' = FALSE
    /\ translationAvailable' = FALSE
    /\ translateCalls' = 0
    /\ UNCHANGED <<unmounted, resetPc, language, hasPermission, mobilenetModel, frameworkReady, startupPc,
                   loops, predictionLog>>
    /\ Render

\* Variant: a language change that also clears the shown translation.
SetLanguageClearsTranslation(value) ==
    /\ startupPc # "mount"
    /\ language' = value
    /\ translation' = NoText
    /\ UNCHANGED <<unmounted, resetPc, word, translationAvailable, predictionFound,
                   hasPermission, mobilenetModel, frameworkReady, startupPc, loops,
                   translateCalls, predictionLog>>
    /\ Render

\* Line 229: onValueChange={(value) => setLanguage(value)}.
SetLanguage(value) ==
    /\ startupPc # "mount"
    /\ language' = value
    /\ UNCHANGED <<unmounted, resetPc, word, translation, translationAvailable, predictionFound,
                   hasPermission, mobilenetModel, frameworkReady, startupPc, loops,
                   translateCalls, predictionLog>>
    /\ Render

\* ------------------------------------------------------------ the poller

\* Lines 202-209, 281: the mounted camera's onReady calls handleCameraStream
\* of the render that mounted it; with predictionFound false there, a new
\* loop starts and runs its first iteration.
HandleCameraStream(tensor) ==
    /\ camera.mounted /\ camera.pending
    /\ camera' = [camera EXCEPT !.pending = FALSE]
    /\ IF camera.predictionFound
       THEN loops' = loops
       ELSE /\ FreeLoops # {}
            /\ LET l == CHOOSE i \in FreeLoops : \A j \in FreeLoops : i <= j
                   started == [pc |-> "raf", mobilenetModel |-> camera.mobilenetModel,
                               language |-> camera.language, className |-> ""]
               IN loops' = [loops EXCEPT ![l] = Iterate(started, tensor)]
    /\ UNCHANGED <<unmounted, resetPc, word, translation, language, translationAvailable, predictionFound,
                   hasPermission, mobilenetModel, frameworkReady, startupPc,
                   translateCalls, predictionLog>>

\* Lines 203-206: the scheduled animation-frame callback runs loop again.
AnimationFrame(l, tensor) ==
    /\ loops[l].pc = "raf"
    /\ loops' = [loops EXCEPT ![l] = Iterate(@, tensor)]
    /\ UNCHANGED <<unmounted, resetPc, word, translation, language, translationAvailable, predictionFound,
                   hasPermission, mobilenetModel, frameworkReady, startupPc, camera,
                   translateCalls, predictionLog>>

\* Variant: the label is stored at the confident classification.
GetPredictionRecordsLabel(l, prediction) ==
    /\ loops[l].pc = "classify"
    /\ predictionLog' = Max(predictionLog, Kind(prediction))
    /\ IF Inconclusive(prediction) \/ ~Confident(prediction)
       THEN /\ loops' = [loops EXCEPT ![l].pc = "raf"]
            /\ UNCHANGED <<predictionFound, translateCalls, word>>
       ELSE /\ loops' = [CancelAnimationFrame(loops, l) EXCEPT
                            ![l].pc = "fetch",
                            ![l].className = prediction[1].className]
            /\ predictionFound' = TRUE
            /\ word' = prediction[1].className
            /\ translateCalls' = Min(translateCalls + 1, 2)
    /\ UNCHANGED <<unmounted, resetPc, translation, language, translationAvailable,
                   hasPermission, mobilenetModel, frameworkReady, startupPc>>
    /\ Render

\* Lines 178-193, 110-115, 206: classify resolves. An empty or unconfident
\* result returns and the next iteration is scheduled; a confident one
\* cancels the render's animation frame, sets predictionFound and calls
\* getTranslation, which runs up to its fetch.
GetPrediction(l, prediction) ==
    /\ loops[l].pc = "classify"
    /\ predictionLog' = Max(predictionLog, Kind(prediction))
    /\ IF Inconclusive(prediction) \/ ~Confident(prediction)
       THEN /\ loops' = [loops EXCEPT ![l].pc = "raf"]
            /\ UNCHANGED <<predictionFound, translateCalls>>
       ELSE /\ loops' = [CancelAnimationFrame(loops, l) EXCEPT
                            ![l].pc = "fetch",
                            ![l].className = prediction[1].className]
            /\ predictionFound' = TRUE
            /\ translateCalls' = Min(translateCalls + 1, 2)
    /\ UNCHANGED <<unmounted, resetPc, word, translation, language, translationAvailable,
                   hasPermission, mobilenetModel, frameworkReady, startupPc>>
    /\ Render

\* Variant: setTranslationAvailable(true) inside the try block, so that a
\* failed fetch skips it.
FetchSettledSkipsAvailable(l, outcome) ==
    /\ loops[l].pc = "fetch"
    /\ IF outcome = "response"
       THEN /\ loops' = [loops EXCEPT ![l].pc = "json"]
            /\ UNCHANGED <<translation>>
       ELSE /\ loops' = [loops EXCEPT ![l].pc = "raf", ![l].className = ""]
            /\ translation' = Fallback
    /\ UNCHANGED <<unmounted, resetPc, word, language, predictionFound, hasPermission, mobilenetModel,
                   frameworkReady, startupPc, translateCalls, predictionLog,
                   translationAvailable>>
    /\ Render

\* Lines 115-123, 134-139, 206: fetch settles. A thrown error or a missing
\* response ends in the catch block (the fallback, word untouched), then
\* setTranslationAvailable(true) and the loop schedules its next iteration;
\* a response is asked for its JSON.
FetchSettled(l, outcome) ==
    /\ loops[l].pc = "fetch"
    /\ IF outcome = "response"
       THEN /\ loops' = [loops EXCEPT ![l].pc = "json"]
            /\ UNCHANGED <<translation, translationAvailable>>
       ELSE /\ loops' = [loops EXCEPT ![l].pc = "raf", ![l].className = ""]
            /\ translation' = Fallback
            /\ translationAvailable' = TRUE
    /\ UNCHANGED <<unmounted, resetPc, word, language, predictionFound, hasPermission, mobilenetModel,
                   frameworkReady, startupPc, translateCalls, predictionLog>>
    /\ Render

\* Lines 123-139, 206: the JSON body arrives; the texts are stored,
\* setTranslationAvailable(true), and the loop schedules its next iteration.
JsonSettled(l, body) ==
    /\ loops[l].pc = "json"
    /\ LET stored == StoredTexts(body, loops[l].className, word)
       IN /\ translation' = stored.translation
          /\ word' = stored.word
    /\ translationAvailable' = TRUE
    /\ loops' = [loops EXCEPT ![l].pc = "raf", ![l].className = ""]
    /\ UNCHANGED <<unmounted, resetPc, language, predictionFound, hasPermission, mobilenetModel,
                   frameworkReady, startupPc, translateCalls, predictionLog>>
    /\ Render

\* ------------------------------------------------------------------ Next

Startup ==
    \/ StartupEffect
    \/ \E status \in {"granted", "denied"} : PermissionAnswered(status)
    \/ TfReady
    \/ ModelLoaded

User ==
    \/ LoadNewTranslation
    \/ \E value \in Languages : SetLanguage(value)

Poller ==
    \/ \E tensor \in Tensors : HandleCameraStream(tensor)
    \/ \E l \in LoopIds, tensor \in Tensors : AnimationFrame(l, tensor)
    \/ \E l \in LoopIds, prediction \in Predictions : GetPrediction(l, prediction)

\* Lines 115, 123: the awaited fetch and json of loop l's request settle.
Settle(l) ==
    \/ \E outcome \in FetchOutcomes : FetchSettled(l, outcome)
    \/ \E body \in JsonBodies(loops[l].className, loops[l].language) :
          JsonSettled(l, body)

Translation == \E l \in LoopIds : Settle(l)

Next == Startup \/ User \/ Poller \/ Translation

Spec == Init /\ [][Next]_vars

\* Every translation request eventually returns or fails.
Fairness == \A l \in LoopIds : WF_vars(Settle(l))

LiveSpec == Init /\ [][Next]_vars /\ Fairness

\* -------------------------------------------------------------- teardown

\* Lines 92-96: the cleanup of the unmount effect. Its dependency,
\* requestAnimationFrameId, is the fresh 0 of line 55 at every render, so the
\* effect runs once and the cleanup is the first render's:
\* cancelAnimationFrame of the first render's variable. The first render
\* shows the translation view (line 31), so no loop ever assigns that
\* variable (206 assigns the variable of the render that started the loop):
\* the id cancelled is 0, which names no scheduled callback.
UnmountCleanup(ls) == ls

\* The App component is torn down: the cleanup runs and the camera goes.
Unmount ==
    /\ ~unmounted
    /\ startupPc # "mount"
    /\ unmounted' = TRUE
    /\ loops' = UnmountCleanup(loops)
    /\ camera' = NoCamera
    /\ UNCHANGED <<word, translation, language, translationAvailable, predictionFound,
                   hasPermission, mobilenetModel, frameworkReady, startupPc,
                   translateCalls, predictionLog, resetPc>>

\* Lines 174-193, 110-140, 203-207 after the teardown: a loop that is still
\* alive goes on as before; the state updates of an unmounted component are
\* dropped, the log lines are still written.
AfterUnmount(l) ==
    /\ unmounted
    /\ \/ /\ loops[l].pc = "raf"
          /\ \E tensor \in Tensors : loops' = [loops EXCEPT ![l] = Iterate(@, tensor)]
          /\ UNCHANGED <<translateCalls, predictionLog>>
       \/ /\ loops[l].pc = "classify"
          /\ \E prediction \in Predictions :
                /\ predictionLog' = Max(predictionLog, Kind(prediction))
                /\ IF Inconclusive(prediction) \/ ~Confident(prediction)
                   THEN /\ loops' = [loops EXCEPT ![l].pc = "raf"]
                        /\ UNCHANGED translateCalls
                   ELSE /\ loops' = [CancelAnimationFrame(loops, l) EXCEPT
                                        ![l].pc = "fetch",
                                        ![l].className = prediction[1].className]
                        /\ translateCalls' = Min(translateCalls + 1, 2)
       \/ /\ loops[l].pc = "fetch"
          /\ \E outcome \in FetchOutcomes :
                loops' = IF outcome = "response"
                         THEN [loops EXCEPT ![l].pc = "json"]
                         ELSE [loops EXCEPT ![l].pc = "raf", ![l].className = ""]
          /\ UNCHANGED <<translateCalls, predictionLog>>
       \/ /\ loops[l].pc = "json"
          /\ loops' = [loops EXCEPT ![l].pc = "raf", ![l].className = ""]
          /\ UNCHANGED <<translateCalls, predictionLog>>
    /\ UNCHANGED <<word, translation, language, translationAvailable, predictionFound,
                   hasPermission, mobilenetModel, frameworkReady, startupPc, camera,
                   unmounted, resetPc>>

\* Lines 69-83 after the teardown: the startup function goes on through
\* its awaits; its state updates are dropped.
StartupAfterUnmount ==
    /\ unmounted
    /\ startupPc \in {"permission", "tfready", "loadmodel"}
    /\ startupPc' = CASE startupPc = "permission" -> "tfready"
                      [] startupPc = "tfready" -> "loadmodel"
                      [] OTHER -> "done"
    /\ UNCHANGED <<word, translation, language, translationAvailable, predictionFound,
                   hasPermission, mobilenetModel, frameworkReady, camera, loops,
                   translateCalls, predictionLog, unmounted, resetPc>>

Mounted == ~unmounted /\ Next

TeardownNext ==
    \/ Mounted
    \/ Unmount
    \/ \E l \in LoopIds : AfterUnmount(l)
    \/ StartupAfterUnmount

TeardownSpec == Init /\ [][TeardownNext]_vars

\* ------------------------------------------------- update by update

\* The handlers above take all the state updates of one handler as one
\* step. Here getTranslation and loadNewTranslation are taken one state
\* update at a time. getTranslation runs after an await, where every update
\* is applied and rendered by itself; a loop inside it is at "setWord"
\* (line 133 is next) or at "setAvailable" (line 139 is next).
Quiet == \A l \in LoopIds : loops[l].pc \notin {"setWord", "setAvailable"}

\* Variant: the reset clears translationAvailable first.
ResetUpdatesAvailableFirst ==
    <<"translationAvailable", "translation", "word", "predictionFound">>

\* Lines 216-219: the four updates of loadNewTranslation, in their order.
ResetUpdates == <<"translation", "word", "predictionFound", "translationAvailable">>

\* Lines 215-220, 254: the next update of loadNewTranslation. The handler
\* runs in a press event, so the render comes after its last update.
ResetUpdate ==
    /\ startupPc # "mount"
    /\ Quiet
    /\ resetPc > 0 \/ translationAvailable
    /\ LET field == ResetUpdates[resetPc + 1]
       IN /\ translation' = IF field = "translation" THEN NoText ELSE translation
          /\ word' = IF field = "word" THEN "" ELSE word
          /\ predictionFound' = IF field = "predictionFound" THEN FALSE
                                ELSE predictionFound
          /\ translationAvailable' = IF field = "translationAvailable" THEN FALSE
                                     ELSE translationAvailable
    /\ translateCalls' = 0
    /\ resetPc' = (resetPc + 1) % Len(ResetUpdates)
    /\ camera' = IF resetPc' = 0
                 THEN Mount(translationAvailable', predictionFound',
                            mobilenetModel, language)
                 ELSE camera
    /\ UNCHANGED <<language, hasPermission, mobilenetModel, frameworkReady,
                   startupPc, loops, predictionLog, unmounted>>

\* Lines 115-119, 134-136: fetch throws or yields no response; the catch
\* block stores the fallback. Line 139 is next.
FetchFailed(l, outcome) ==
    /\ Quiet /\ resetPc = 0
    /\ loops[l].pc = "fetch"
    /\ outcome # "response"
    /\ translation' = Fallback
    /\ loops' = [loops EXCEPT ![l].pc = "setAvailable"]
    /\ UNCHANGED <<word, language, translationAvailable, predictionFound,
                   hasPermission, mobilenetModel, frameworkReady, startupPc,
                   translateCalls, predictionLog, unmounted, resetPc>>
    /\ Render

\* Lines 123-132, 136: the JSON body arrives and setTranslation stores the
\* text: the first entry (line 133 is next) or the fallback (139 is next).
JsonTextStored(l, body) ==
    /\ Quiet /\ resetPc = 0
    /\ loops[l].pc = "json"
    /\ translation' = StoredTexts(body, loops[l].className, word).translation
    /\ loops' = [loops EXCEPT ![l].pc = IF Unusable(body) THEN "setAvailable"
                                        ELSE "setWord"]
    /\ UNCHANGED <<word, language, translationAvailable, predictionFound,
                   hasPermission, mobilenetModel, frameworkReady, startupPc,
                   translateCalls, predictionLog, unmounted, resetPc>>
    /\ Render

\* Line 133: setWord(className).
WordStored(l) ==
    /\ loops[l].pc = "setWord"
    /\ word' = loops[l].className
    /\ loops' = [loops EXCEPT ![l].pc = "setAvailable"]
    /\ UNCHANGED <<translation, language, translationAvailable, predictionFound,
                   hasPermission, mobilenetModel, frameworkReady, startupPc,
                   translateCalls, predictionLog, unmounted, resetPc>>
    /\ Render

\* Lines 139, 206: setTranslationAvailable(true); getTranslation returns and
\* the loop schedules its next iteration.
AvailableSet(l) ==
    /\ loops[l].pc = "setAvailable"
    /\ translationAvailable' = TRUE
    /\ loops' = [loops EXCEPT ![l].pc = "raf", ![l].className = ""]
    /\ UNCHANGED <<word, translation, language, predictionFound,
                   hasPermission, mobilenetModel, frameworkReady, startupPc,
                   translateCalls, predictionLog, unmounted, resetPc>>
    /\ Render

\* The handlers that make at most one state update, between the updates of
\* no other handler.
Handlers ==
    /\ Quiet /\ resetPc = 0
    /\ \/ Startup
       \/ \E value \in Languages : SetLanguage(value)
       \/ Poller
       \/ \E l \in LoopIds : FetchSettled(l, "response")

UpdateNext ==
    \/ Handlers
    \/ ResetUpdate
    \/ \E l \in LoopIds, outcome \in FetchOutcomes : FetchFailed(l, outcome)
    \/ \E l \in LoopIds :
          \E body \in JsonBodies(loops[l].className, loops[l].language) :
             JsonTextStored(l, body)
    \/ \E l \in LoopIds : WordStored(l)
    \/ \E l \in LoopIds : AvailableSet(l)

UpdateSpec == Init /\ [][UpdateNext]_vars

\* ---------------------------------------------------------------- claims

InFlight(l) == loops[l].pc \in {"fetch", "json"}

\* C1: between two resets getTranslation is invoked at most once.
OneTranslationPerCycle == translateCalls <= 1

FailedTranslationShowsFallback ==
    [][\A l \in LoopIds :
          (\/ FetchSettled(l, "throw")
           \/ FetchSettled(l, "null")
           \/ \E body \in JsonBodies(loops[l].className, loops[l].language) :
                 /\ body.kind # "data" \/ Len(body.translations) = 0
                 /\ JsonSettled(l, body))
          => /\ translationAvailable'
             /\ Phase' = "ShowingResult"
             /\ translation' = Fallback
             /\ loops'[l].pc = "raf"]_vars

\* C3 witness: the result view shows the fallback text.
FallbackShown ==
    /\ translation = Fallback
    /\ Phase = "ShowingResult"
    /\ translateCalls >= 1

\* C4: every translation request in flight is eventually followed by its
\* completion in phase ShowingResult.
ConfidentLeadsToShowingResult ==
    \A l \in LoopIds :
        (loops[l].pc = "fetch") ~> (Phase = "ShowingResult" /\ ~InFlight(l))

\* C4 witness: a cycle went from a confident classification to the result
\* view and its request is no longer in flight.
ResultReachedAfterConfident ==
    /\ translateCalls = 1
    /\ Phase = "ShowingResult"
    /\ predictionFound
    /\ \A l \in LoopIds : ~InFlight(l)

\* C5: the reset yields phase Capturing (predictionFound false,
\* translationAvailable false) with empty label and empty translation.
ResetYieldsCapturing ==
    [][LoadNewTranslation
          => /\ Phase' = "Capturing"
             /\ ~predictionFound' /\ ~translationAvailable'
             /\ word' = ""
             /\ translation' = NoText]_vars

\* C5 witness: after a completed cycle with a stored label, the state is
\* Capturing again with both texts empty.
ResetAfterResult ==
    /\ predictionLog = 3
    /\ Phase = "Capturing"
    /\ word = "" /\ translation = NoText
    /\ translateCalls = 0

\* C6: the session starts in phase Capturing with empty label, empty
\* translation and the default language.
SessionStartsCapturing ==
    startupPc = "mount"
        => /\ Phase = "Capturing"
           /\ word = "" /\ translation = NoText
           /\ language = DefaultLanguage

\* C7: the phase changes only Capturing -> Resolving -> ShowingResult ->
\* Capturing.
PhaseOrder ==
    [][Phase' # Phase
          => <<Phase, Phase'>> \in {<<"Capturing", "Resolving">>,
                                    <<"Resolving", "ShowingResult">>,
                                    <<"ShowingResult", "Capturing">>}]_vars

\* C8: an answer with at least one translation entry ends in ShowingResult
\* with the first entry's text as translation and the classified label as
\* word.
FirstEntryIsShown ==
    [][\A l \in LoopIds :
          \A body \in JsonBodies(loops[l].className, loops[l].language) :
             (/\ body.kind = "data"
              /\ Len(body.translations) >= 1
              /\ JsonSettled(l, body))
             => /\ Phase' = "ShowingResult"
                /\ translation' = Head(body.translations)
                /\ word' = loops[l].className]_vars

\* C8 witness: the result view shows label "mug" with a text the service
\* returned for it.
MugTranslated ==
    /\ Phase = "ShowingResult"
    /\ word = "mug"
    /\ \E target \in Languages : translation \in Texts("mug", target)

\* C9: an iteration without a tensor, or with an empty classifier result,
\* changes no session state and schedules the next iteration; as long as
\* every classifier result was empty, translation is never invoked and a
\* phase of Capturing stays Capturing.
EmptyResultIsInconclusive ==
    /\ [][\A l \in LoopIds :
             (AnimationFrame(l, FALSE) \/ GetPrediction(l, <<>>))
             => /\ UNCHANGED session
                /\ UNCHANGED translateCalls
                /\ loops'[l].pc = "raf"]_vars
    /\ [][(HandleCameraStream(FALSE) /\ ~camera.predictionFound)
             => /\ UNCHANGED session
                /\ UNCHANGED translateCalls
                /\ \E l \in LoopIds : loops[l].pc = "none" /\ loops'[l].pc = "raf"]_vars
    /\ [][(predictionLog' <= 1 /\ Phase = "Capturing")
             => Phase' = "Capturing"]_vars
    /\ [](predictionLog <= 1
             => /\ translateCalls = 0
                /\ ~predictionFound
                /\ translation = NoText
                /\ \A l \in LoopIds : ~InFlight(l))

\* C9 witness: the classifier has answered, only with empty results; the
\* phase is Capturing and a loop has its next iteration scheduled.
OnlyEmptyResultsSeen ==
    /\ predictionLog = 1
    /\ Phase = "Capturing"
    /\ \E l \in LoopIds : loops[l].pc = "raf"

\* C10: a language change leaves phase, label and translation unchanged,
\* in every phase.
SetLanguageChangesOnlyLanguage ==
    [][\A value \in Languages :
          SetLanguage(value)
          => /\ language' = value
             /\ UNCHANGED <<word, translation, translationAvailable, predictionFound>>
             /\ Phase' = Phase]_vars

\* C10 witness: the language differs from the one the loop started with,
\* while that loop's translation is in flight in phase Resolving.
LanguageChangedInFlight ==
    \E l \in LoopIds :
        /\ InFlight(l)
        /\ loops[l].language # language
        /\ Phase = "Resolving"

\* C11: after a reset, the completion of a translation that was requested
\* before it changes neither phase nor label nor translation. In phase
\* Capturing every request in flight dates from before the last reset.
StaleCompletionChangesNothing ==
    [][\A l \in LoopIds :
          (Phase = "Capturing" /\ InFlight(l) /\ Settle(l))
          => /\ Phase' = Phase
             /\ UNCHANGED <<word, translation>>]_vars

\* C12: the poller is active only in phase Capturing: in Resolving and
\* ShowingResult no loop iteration is scheduled and no frame is being
\* classified.
PollerOnlyWhileCapturing ==
    Phase # "Capturing"
        => \A l \in LoopIds : loops[l].pc \notin {"raf", "classify"}

\* C13: at most one polling loop is running at any time.
AtMostOneLoop == Cardinality({l \in LoopIds : loops[l].pc # "none"}) <= 1

\* C17: the Capturing phase is entered, and the classifier is called, only
\* after permission request, runtime readiness and model load are done.
CapturingOnlyAfterStartup ==
    (Phase = "Capturing" \/ \E l \in LoopIds : loops[l].pc = "classify")
        => startupPc = "done"

\* C18: in phase Capturing a loop iteration is running or scheduled, or the
\* mounted camera is about to start one.
CapturingHasLoop ==
    Phase = "Capturing"
        => \/ camera.mounted /\ camera.pending
           \/ \E l \in LoopIds : loops[l].pc # "none"

\* C19: a translation request is issued with the language selected at that
\* moment.
RequestUsesSelectedLanguage ==
    [][\A l \in LoopIds :
          (loops[l].pc = "classify" /\ loops'[l].pc = "fetch")
          => loops'[l].language = language]_vars

\* C20: whenever the label is non-empty, the translation is a text the
\* service returned for that label.
LabelAndTranslationBelongTogether ==
    word # "" => \E target \in Languages : translation \in Texts(word, target)

\* C14: after the teardown no animation-frame callback of a polling loop
\* is scheduled, and none is running an iteration.
NoLoopAfterUnmount ==
    unmounted => \A l \in LoopIds : loops[l].pc = "none"

TextOnlyWithResult == translation # NoText => Phase = "ShowingResult"

\* C16 as the code has it: translatedText is non-empty only if the phase is
\* ShowingResult, between handlers and between the single updates of
\* loadNewTranslation; not between the updates of getTranslation, which
\* stores the text before it sets translationAvailable.
TextOnlyWithResultOutsideGetTranslation ==
    Quiet => (translation # NoText => Phase = "ShowingResult")

\* C16 witness: getTranslation has made all its updates for "mug" and the
\* result view shows the stored text.
TextShownAfterLastUpdate ==
    /\ Quiet /\ resetPc = 0
    /\ word = "mug"
    /\ \E target \in Languages : translation \in Texts("mug", target)
    /\ Phase = "ShowingResult"

====
